---- MODULE Spec2Model ----
(***************************************************************************)
(* Worklist / MPPS server of orthanc_danaul: the store (SQLAlchemy          *)
(* sessions over one SQLite file), the EMR synchronisation engine, the      *)
(* C-FIND worklist query and the N-CREATE / N-SET procedure-step handlers.  *)
(*                                                                         *)
(* Threads: one background synchronisation thread and the handler threads  *)
(* of the pynetdicom server (one per association).  Every handler is cut    *)
(* into steps at the points where it reads or writes shared state (the      *)
(* SQLite file, managed_instances, the EMR table), so that the              *)
(* interleavings the threads can really produce are the behaviours of       *)
(* Spec.                                                                    *)
(***************************************************************************)
EXTENDS Integers, Sequences, FiniteSets, TLC

(***************************************************************************)
(* Bounds of the model.                                                    *)
(***************************************************************************)
\* handler threads of the DICOM server that may run at the same time
NumHandlers == 2
\* operations (handler requests and background sync runs) started in a run
MaxCalls == 3

(***************************************************************************)
(* Program constants.                                                      *)
(***************************************************************************)
\* SELECT TOP 5 of fetch_new_orders
FetchLimit == 5
\* str(seq).zfill(8)
AccWidth == 8
\* DICOM status codes returned by the handlers
Success == 0                \* 0x0000
InvalidAttributeValue == 262  \* 0x0106
DuplicateSOPInstance == 273   \* 0x0111
NoSuchSOPInstance == 274      \* 0x0112
MissingAttribute == 288       \* 0x0120
Pending == 65280              \* 0xFF00
Cancel == 65024               \* 0xFE00

\* Python's None for a string-valued field
NONE == "<None>"

\* the background synchronisation thread; handler threads are 1..NumHandlers
BG == 0
Handlers == 1..NumHandlers
Threads == {BG} \cup Handlers

(***************************************************************************)
(* Pure helpers.                                                           *)
(***************************************************************************)
Range(s) == {s[i] : i \in DOMAIN s}

Max(S) == CHOOSE x \in S : \A y \in S : y <= x

Digit(d) == <<"0", "1", "2", "3", "4", "5", "6", "7", "8", "9">>[d + 1]

\* str(n) of a non-negative integer, as the sequence of its characters
RECURSIVE Str(_)
Str(n) == IF n < 10 THEN <<Digit(n)>> ELSE Str(n \div 10) \o <<Digit(n % 10)>>

\* s.zfill(w): left-pad with "0" up to width w, never truncate
Zfill(s, w) == IF Len(s) >= w THEN s ELSE [i \in 1..(w - Len(s)) |-> "0"] \o s

\* accession_number = str(order['PcsOdrSeq']).zfill(8)
AccessionOf(seq) == Zfill(Str(seq), AccWidth)

\* Python truthiness of the order fields: an optional integer is <<>> (None)
\* or <<n>>; None, 0 and the empty string are falsy
TruthyInt(v) == v # <<>> /\ v[1] # 0
TruthyStr(v) == v # NONE /\ v # ""

\* has_korean / translate_korean_to_english_name on the names of the model:
\* a name in Hangul is romanised and upper-cased, any other name is returned
\* unchanged
has_korean(name) == name \in {"hangul:gim", "hangul:i"}
translate_korean_to_english_name(name) ==
    IF ~has_korean(name) THEN name
    ELSE CASE name = "hangul:gim" -> "GIM"
           [] name = "hangul:i" -> "I"

\* the order timestamp: a datetime is formatted, a string is parsed with
\* '%Y%m%d%H%M', and a string that does not parse falls back to now()
AppointmentDate(dtm) ==
    CASE dtm = "datetime:20250101" -> "20250101"
      [] dtm = "202501011000" -> "20250101"
      [] dtm = "202501021000" -> "20250102"
      [] OTHER -> "today"

\* ModalityAET rows as loaded from MODALITY_AET_<MODALITY>, per modality in
\* row order
ModalityAETs(modality) ==
    CASE modality = "CT" -> <<"CT_AET_1", "CT_AET_2">>
      [] OTHER -> <<>>

\* get_aets_for_modality
get_aets_for_modality(modality) == ModalityAETs(modality)

(***************************************************************************)
(* The rows of the external order source (PcsInf with PcsDelFlg = 'N').     *)
(***************************************************************************)
Order(id, seq, dtm, unit, name, chart) ==
    [id |-> id, PcsOdrSeq |-> seq, PcsOdrDtm |-> dtm, PcsUntCod |-> unit,
     PcsPatNam |-> name, PcsChtNum |-> chart]

\* the rows that may appear in the order source during a run: two rows carry
\* the same order sequence number
Catalogue ==
    { Order(1, <<1>>, "datetime:20250101", "CT", "DOE^JOHN", "P1"),
      Order(2, <<2>>, "202501021000", "US", "hangul:gim", "P2"),
      Order(3, <<2>>, "202501021000", "CT", "DOE^JOHN", "P1") }

VARIABLES
    emr,        \* rows of the order source
    pool,       \* rows that have not arrived in the order source yet
    emrStatus,  \* PcsStatus written by update_order_status: <<sequence number, status>>
    patients,   \* committed rows of table patients
    items,      \* committed rows of table worklist_items
    tracking,   \* committed rows of table mpps_tracking
    dbLock,     \* the thread whose session holds SQLite's write lock, if any
    managed,    \* managed_instances: SOP instance uid -> status of the dataset
    pc,         \* per thread: where it stands
    loc,        \* per thread: its local variables (session included)
    calls,      \* operations started so far
    uidGen,     \* study instance uids generate_uid() has produced
    cancelled,  \* handler threads whose C-FIND has received a C-CANCEL
    resp,       \* what the step just taken returned or yielded to its caller
    offered,    \* history: rows fetch_new_orders returned to syncs that have ended
    inserted,   \* history: per worklist item row, how many commits INSERTed it
    accepted,   \* history: uids that passed the checks of handle_create
    startOk,    \* history: per uid, how many N-CREATE returned 0x0000
    worklist_server  \* the pynetdicom server: "running", or "stopped" by OnChange

srcVars == <<emr, pool>>
storeVars == <<patients, items, tracking>>
histVars == <<offered, inserted, accepted, startOk>>

vars == <<emr, pool, emrStatus, patients, items, tracking, dbLock, managed,
          pc, loc, calls, uidGen, cancelled, resp, offered, inserted, accepted,
          startOk, worklist_server>>

\* the locals of a thread that runs nothing
Idle == [op |-> "none"]

\* the step just taken returned nothing
NoResp == [op |-> "none"]

Init ==
    /\ emr = {}
    /\ pool = Catalogue
    /\ emrStatus = {}
    /\ patients = {}
    /\ items = {}
    /\ tracking = {}
    /\ dbLock = {}
    /\ managed = [u \in {} |-> ""]
    /\ pc = [t \in Threads |-> "idle"]
    /\ loc = [t \in Threads |-> Idle]
    /\ calls = 0
    /\ uidGen = 0
    /\ cancelled = {}
    /\ resp = NoResp
    /\ offered = {}
    /\ inserted = [r \in {} |-> 0]
    /\ accepted = {}
    /\ startOk = [u \in {} |-> 0]
    /\ worklist_server = "running"

(***************************************************************************)
(* The order source.                                                       *)
(***************************************************************************)
\* a new row is inserted into PcsInf by the EMR.  The table is read by the
\* query of fetch_new_orders only, so the insertions that happen at other
\* moments are represented by insertions just before that query.
EmrInsert ==
    /\ \E t \in Threads : pc[t] = "sync_fetch"
    /\ \E o \in pool :
          /\ emr' = emr \cup {o}
          /\ pool' = pool \ {o}
    /\ resp' = NoResp
    /\ UNCHANGED <<worklist_server, emrStatus, storeVars, dbLock, managed, pc,
                   loc, calls, uidGen, cancelled, histVars>>

\* ORDER BY PcsOdrSeq DESC: NULL sorts lowest
SeqKey(o) == IF o.PcsOdrSeq = <<>> THEN -1 ELSE o.PcsOdrSeq[1]

\* the rows the query of fetch_new_orders selects
Eligible(last_seq) ==
    {o \in emr : last_seq = <<>> \/ (o.PcsOdrSeq # <<>> /\ o.PcsOdrSeq[1] > last_seq[1])}

\* the possible results of the query: the TOP 5 of the eligible rows by
\* descending sequence number, rows of equal sequence number in any order
FetchResults(last_seq) ==
    LET E == Eligible(last_seq)
        n == IF Cardinality(E) < FetchLimit THEN Cardinality(E) ELSE FetchLimit
    IN  {b \in [1..n -> E] :
            /\ \A i, j \in 1..n : i < j => (b[i] # b[j] /\ SeqKey(b[i]) >= SeqKey(b[j]))
            /\ \A o \in E \ Range(b) : \A i \in 1..n : SeqKey(o) <= SeqKey(b[i])}

\* emr_api.update_order_status: the UPDATE of PcsStatus for the rows with
\* that sequence number; ok = FALSE when the connection or the statement
\* fails (the function catches and returns False)
update_order_status(seq, st, ok) ==
    IF ok /\ \E o \in emr : o.PcsOdrSeq = seq
    THEN {e \in emrStatus : e[1] # seq} \cup {<<seq, st>>}
    ELSE emrStatus

(***************************************************************************)
(* The store: one SQLAlchemy session per operation, autocommit=False and    *)
(* autoflush=False.  What a session has added stays pending (invisible to   *)
(* its own queries) until a flush INSERTs it; a flush takes SQLite's write  *)
(* lock, which the session keeps until it commits or rolls back.  Other     *)
(* sessions read the committed rows only.                                   *)
(***************************************************************************)
\* sessionmaker(autocommit=False, autoflush=False): whether a query flushes
\* the pending objects of its session first
Autoflush == FALSE

\* the session of a running sync_emr_orders
NewSession ==
    [sPats |-> {},      \* patients INSERTed by a flush, not committed yet
     sItems |-> {},     \* worklist items INSERTed by a flush, not committed yet
     pend |-> <<>>,     \* worklist items added to the session, not flushed
     dead |-> FALSE]    \* a flush failed: the session refuses work until rollback()

\* UNIQUE(patients.patient_id)
PatientInsertOk(S, p) ==
    \A q \in patients \cup S.sPats : q.patient_id # p.patient_id

\* worklist_items without UNIQUE(accession_number): the NOT NULL columns only
ItemsInsertNotUnique(S) ==
    \A i \in DOMAIN S.pend : S.pend[i].modality # NONE

\* UNIQUE(worklist_items.accession_number) and the NOT NULL columns, for the
\* pending worklist items INSERTed one after the other
ItemsInsertOk(S) ==
    /\ \A i \in DOMAIN S.pend :
          /\ S.pend[i].modality # NONE
          /\ \A it \in items \cup S.sItems :
                it.accession_number # S.pend[i].accession_number
    /\ \A i, j \in DOMAIN S.pend :
          i # j => S.pend[i].accession_number # S.pend[j].accession_number

\* the session after a flush that succeeded
Flushed(S, newPats) ==
    [S EXCEPT !.sPats = @ \cup newPats, !.sItems = @ \cup Range(S.pend), !.pend = <<>>]

\* the session after a flush that raised: the transaction is rolled back, the
\* pending objects are expunged and every later use raises
Broken(S) ==
    [S EXCEPT !.sPats = {}, !.sItems = {}, !.pend = <<>>, !.dead = TRUE]

\* the committed worklist items after UPDATE ... SET status = st for the row
\* loaded as `old`; the UPDATE is emitted only when the attribute was changed
\* from the value that was loaded
SetItemStatus(old, st) ==
    IF old.status = st THEN items
    ELSE {IF it.accession_number = old.accession_number
          THEN [it EXCEPT !.status = st] ELSE it : it \in items}

(***************************************************************************)
(* sync_emr_orders                                                         *)
(***************************************************************************)
\* the latest order sequence among the items that carry one
LastSeq ==
    LET S == {it.emr_order_seq[1] : it \in {x \in items : x.emr_order_seq # <<>>}}
    IN  IF S = {} THEN <<>> ELSE <<Max(S)>>

\* the accession numbers of the items that have left SCHEDULED, as they
\* stand when a call begins
NotScheduled ==
    {it.accession_number : it \in {x \in items : x.status # "SCHEDULED"}}

\* lines 429-436, at the call of sync_emr_orders by op (the background loop
\* or find_worklist): open the session, read the cursor
SyncOpen(t, op) ==
    /\ pc' = [pc EXCEPT ![t] = "sync_fetch"]
    /\ loc' = [loc EXCEPT ![t] =
                 [op |-> op, last_seq |-> LastSeq, batch |-> <<>>, i |-> 1,
                  count |-> 0, ses |-> NewSession, newPat |-> {},
                  gone |-> NotScheduled]]
    /\ resp' = NoResp
    /\ UNCHANGED <<worklist_server, srcVars, emrStatus, storeVars, dbLock, managed, uidGen,
                   cancelled, histVars>>

\* the same as one of the calls that are counted
SyncStart(t, op) ==
    /\ SyncOpen(t, op)
    /\ calls' = calls + 1

\* lines 439-445 and fetch_new_orders: the query result, or [] when the
\* connection or the query fails (fetch_new_orders catches and returns [])
SyncFetch(t) ==
    /\ pc[t] = "sync_fetch"
    /\ \E b \in FetchResults(loc[t].last_seq) \cup {<<>>} :
          loc' = [loc EXCEPT ![t].batch = b]
    /\ pc' = [pc EXCEPT ![t] = "sync_loop"]
    /\ resp' = NoResp
    /\ UNCHANGED <<worklist_server, srcVars, emrStatus, storeVars, dbLock, managed, calls,
                   uidGen, cancelled, histVars>>

\* line 450
RequiredPresent(o) ==
    /\ TruthyStr(o.PcsChtNum)
    /\ TruthyStr(o.PcsPatNam)
    /\ TruthyStr(o.PcsOdrDtm)
    /\ TruthyInt(o.PcsOdrSeq)

\* lines 462-471
NewPatient(o) ==
    [patient_id |-> o.PcsChtNum, patient_name |-> o.PcsPatNam,
     patient_eng_name |-> translate_korean_to_english_name(o.PcsPatNam)]

\* an item that takes the last candidate device instead of the first
NewItemLastCandidate(o) ==
    LET aets == get_aets_for_modality(o.PcsUntCod)
    IN  [accession_number |-> AccessionOf(o.PcsOdrSeq[1]),
         patient_id |-> o.PcsChtNum,
         appointment_date |-> AppointmentDate(o.PcsOdrDtm),
         modality |-> o.PcsUntCod,
         aet |-> IF aets # <<>> THEN aets[Len(aets)] ELSE NONE,
         study_instance_uid |-> <<>>,
         status |-> "SCHEDULED",
         emr_order_seq |-> o.PcsOdrSeq]

\* lines 502-521
NewItem(o) ==
    LET aets == get_aets_for_modality(o.PcsUntCod)
    IN  [accession_number |-> AccessionOf(o.PcsOdrSeq[1]),
         patient_id |-> o.PcsChtNum,
         appointment_date |-> AppointmentDate(o.PcsOdrDtm),
         modality |-> o.PcsUntCod,
         aet |-> IF aets # <<>> THEN aets[1] ELSE NONE,
         study_instance_uid |-> <<>>,
         status |-> "SCHEDULED",
         emr_order_seq |-> o.PcsOdrSeq]

\* the worklist items a query of the session sees: the committed rows, the
\* rows the session has flushed and, with autoflush only, its pending ones
SessionItems(S) ==
    items \cup S.sItems \cup (IF Autoflush THEN Range(S.pend) ELSE {})

\* lines 490-525 with count incremented for a skipped order as well
ItemStageCountsSkipped(L, S, o) ==
    IF \E it \in SessionItems(S) : it.accession_number = AccessionOf(o.PcsOdrSeq[1])
    THEN [L EXCEPT !.ses = S, !.newPat = {}, !.i = @ + 1, !.count = @ + 1]
    ELSE [L EXCEPT !.ses = [S EXCEPT !.pend = Append(@, NewItem(o))],
                   !.newPat = {}, !.i = @ + 1, !.count = @ + 1]

\* lines 490-525 for order o in a session in state S: skip an order whose
\* accession number the existing-item query finds, else add the item
ItemStage(L, S, o) ==
    IF \E it \in SessionItems(S) : it.accession_number = AccessionOf(o.PcsOdrSeq[1])
    THEN [L EXCEPT !.ses = S, !.newPat = {}, !.i = @ + 1]
    ELSE [L EXCEPT !.ses = [S EXCEPT !.pend = Append(@, NewItem(o))],
                   !.newPat = {}, !.i = @ + 1, !.count = @ + 1]

\* lines 448-473: one order of the batch up to the patient lookup; a patient
\* that is not found is added, and the flush of line 473 is the next step
SyncOrder(t) ==
    /\ pc[t] = "sync_loop"
    /\ loc[t].i <= Len(loc[t].batch)
    /\ LET L == loc[t]
           o == L.batch[L.i]
       IN  IF ~RequiredPresent(o) \/ L.ses.dead
           THEN \* skipped (line 452), or db.query raises and line 526 catches
                /\ loc' = [loc EXCEPT ![t].i = @ + 1]
                /\ pc' = pc
           ELSE IF \E p \in patients \cup L.ses.sPats : p.patient_id = o.PcsChtNum
           THEN /\ loc' = [loc EXCEPT ![t] = ItemStage(L, L.ses, o)]
                /\ pc' = pc
           ELSE /\ loc' = [loc EXCEPT ![t].newPat = {NewPatient(o)}]
                /\ pc' = [pc EXCEPT ![t] = "sync_flush"]
    /\ resp' = NoResp
    /\ UNCHANGED <<worklist_server, srcVars, emrStatus, storeVars, dbLock, managed, calls,
                   uidGen, cancelled, histVars>>

\* line 473, db.flush(): INSERT the new patient and the pending items.  On
\* an IntegrityError the per-record handler (line 526) goes on to the next
\* order with a session that is no longer usable.
SyncFlush(t) ==
    /\ pc[t] = "sync_flush"
    /\ dbLock \subseteq {t}
    /\ LET L == loc[t]
           o == L.batch[L.i]
           p == CHOOSE x \in L.newPat : TRUE
       IN  IF PatientInsertOk(L.ses, p) /\ ItemsInsertOk(L.ses)
           THEN /\ loc' = [loc EXCEPT ![t] = ItemStage(L, Flushed(L.ses, {p}), o)]
                /\ dbLock' = {t}
           ELSE /\ loc' = [loc EXCEPT ![t] =
                             [L EXCEPT !.ses = Broken(@), !.newPat = {}, !.i = @ + 1]]
                /\ dbLock' = {}
    /\ pc' = [pc EXCEPT ![t] = "sync_loop"]
    /\ resp' = NoResp
    /\ UNCHANGED <<worklist_server, srcVars, emrStatus, storeVars, managed, calls, uidGen,
                   cancelled, histVars>>

\* line 473 while another session holds the write lock until the busy
\* timeout expires: OperationalError (database is locked)
SyncFlushLocked(t) ==
    /\ pc[t] = "sync_flush"
    /\ ~(dbLock \subseteq {t})
    /\ loc' = [loc EXCEPT ![t] =
                 [loc[t] EXCEPT !.ses = Broken(@), !.newPat = {}, !.i = @ + 1]]
    /\ pc' = [pc EXCEPT ![t] = "sync_loop"]
    /\ resp' = NoResp
    /\ UNCHANGED <<worklist_server, srcVars, emrStatus, storeVars, dbLock, managed, calls,
                   uidGen, cancelled, histVars>>

\* a return of sync_emr_orders that ends the caller's operation as well
SyncReturnAborts(t, n) ==
    /\ pc' = [pc EXCEPT ![t] = "idle"]
    /\ loc' = [loc EXCEPT ![t] = Idle]
    /\ resp' = [op |-> "sync", by |-> t, ret |-> n, batch |-> loc[t].batch]
    /\ offered' = offered \cup Range(loc[t].batch)

\* a return of sync_emr_orders after which a background loop whose call
\* brought nothing does not go round again
SyncReturnEndsLoop(t, n) ==
    /\ pc' = [pc EXCEPT ![t] = IF t # BG THEN "find_query"
                               ELSE IF n = 0 THEN "ended" ELSE "idle"]
    /\ loc' = [loc EXCEPT ![t] = IF t = BG THEN Idle
                               ELSE [op |-> "find", gone |-> loc[t].gone]]
    /\ resp' = [op |-> "sync", by |-> t, ret |-> n, batch |-> loc[t].batch]
    /\ offered' = offered \cup Range(loc[t].batch)

\* sync_emr_orders returns n to its caller: the background loop sleeps
\* again (lines 558-566), find_worklist goes on to its query
SyncReturn(t, n) ==
    /\ pc' = [pc EXCEPT ![t] = IF t = BG THEN "idle" ELSE "find_query"]
    /\ loc' = [loc EXCEPT ![t] = IF t = BG THEN Idle
                               ELSE [op |-> "find", gone |-> loc[t].gone]]
    /\ resp' = [op |-> "sync", by |-> t, ret |-> n, batch |-> loc[t].batch]
    /\ offered' = offered \cup Range(loc[t].batch)

\* inserted with one more committed INSERT for each row of rows
CountInserts(rows) ==
    [r \in DOMAIN inserted \cup rows |->
        (IF r \in DOMAIN inserted THEN inserted[r] ELSE 0)
           + (IF r \in rows THEN 1 ELSE 0)]

\* a commit that also rewrites the patient of every order of the batch
CommittedPatientsUpserted(L) ==
    LET valid == {o \in Range(L.batch) : RequiredPresent(o)}
    IN  {p \in patients : ~\E o \in valid : o.PcsChtNum = p.patient_id}
           \cup {NewPatient(o) : o \in valid} \cup L.ses.sPats

\* a commit that leaves out the patients the sync has added
CommittedPatientsOmitted(L) == patients

\* the committed patients after the commit of a sync with locals L: the
\* patients it added (lines 456-473) join those of the store, which no
\* statement of sync_emr_orders modifies
CommittedPatients(L) == patients \cup L.ses.sPats

\* lines 531-538, db.commit(): flush what is pending and commit, return
\* count; any exception rolls everything back and returns 0
SyncCommit(t) ==
    /\ pc[t] = "sync_loop"
    /\ loc[t].i > Len(loc[t].batch)
    /\ LET S == loc[t].ses
       IN  IF S.dead
           THEN /\ SyncReturn(t, 0)
                /\ UNCHANGED <<patients, items, dbLock, inserted>>
           ELSE /\ (S.pend = <<>> \/ dbLock \subseteq {t})
                /\ IF ItemsInsertOk(S)
                   THEN /\ patients' = CommittedPatients(loc[t])
                        /\ items' = items \cup S.sItems \cup Range(S.pend)
                        /\ inserted' = CountInserts(S.sItems \cup Range(S.pend))
                        /\ SyncReturn(t, loc[t].count)
                   ELSE /\ SyncReturn(t, 0)
                        /\ UNCHANGED <<patients, items, inserted>>
                /\ dbLock' = dbLock \ {t}
    /\ UNCHANGED <<worklist_server, srcVars, emrStatus, tracking, managed, calls, uidGen,
                   cancelled, accepted, startOk>>

\* db.commit() while another session holds the write lock until the busy
\* timeout expires
SyncCommitLocked(t) ==
    /\ pc[t] = "sync_loop"
    /\ loc[t].i > Len(loc[t].batch)
    /\ ~loc[t].ses.dead
    /\ loc[t].ses.pend # <<>>
    /\ ~(dbLock \subseteq {t})
    /\ SyncReturn(t, 0)
    /\ UNCHANGED <<worklist_server, srcVars, emrStatus, storeVars, dbLock, managed, calls,
                   uidGen, cancelled, inserted, accepted, startOk>>

(***************************************************************************)
(* background_sync_thread                                                  *)
(***************************************************************************)
\* lines 554-557: the sleep is over, the loop calls sync_emr_orders
BgSync ==
    /\ pc[BG] = "idle"
    /\ calls < MaxCalls
    /\ SyncStart(BG, "bg")

\* the same once MaxCalls calls have been counted: while True goes on
BgSyncAgain ==
    /\ pc[BG] = "idle"
    /\ calls = MaxCalls
    /\ SyncOpen(BG, "bg")
    /\ UNCHANGED calls

(***************************************************************************)
(* Requests of the DICOM peers.                                            *)
(***************************************************************************)
\* SOP instance uids the modalities use for their procedure steps
StepUIDs == {"1.1", "1.2"}

\* an accession number that no order of the catalogue derives
UnknownAccession == AccessionOf(9)

\* str.upper() on the status values of the model
Upper(s) ==
    CASE s = "in progress" -> "IN PROGRESS"
      [] s = "In Progress" -> "IN PROGRESS"
      [] s = "completed" -> "COMPLETED"
      [] OTHER -> s

\* N-CREATE requests, in the parts handle_create reads one after the other:
\* AffectedSOPInstanceUID (NONE when absent) and the
\* PerformedProcedureStepStatus of the attribute list (NONE when the
\* attribute is absent) for the checks,
CreateRequests ==
    [uid : StepUIDs \cup {NONE},
     status : {NONE, "IN PROGRESS", "in progress", "COMPLETED"}]

\* then whether Modality and ScheduledStepAttributesSequence are present, and
\* the accession number the sequence refers to
CreateAttributes ==
    {a \in [attrs : BOOLEAN, acc : {AccessionOf(1), UnknownAccession}] :
        ~a.attrs => a.acc = UnknownAccession}

\* N-SET requests: RequestedSOPInstanceUID and the status of the
\* modification list
SetRequests ==
    [uid : StepUIDs, status : {"COMPLETED", "DISCONTINUED"}]

\* C-FIND identifiers: Modality and ScheduledProcedureStepStartDate of the
\* ScheduledProcedureStepSequence (NONE when absent) and AccessionNumber
\* (getattr default '*')
FindRequests ==
    [modality : {NONE, "CT"}, date : {NONE, "20250101"},
     acc : {<<"*">>, AccessionOf(1)}]

\* the identifier without any filter
MatchAll == [modality |-> NONE, date |-> NONE, acc |-> <<"*">>]

\* the handler thread a request is dispatched to: handler threads are
\* interchangeable, the lowest idle one is taken
FreeHandler(t) ==
    /\ worklist_server = "running"
    /\ t \in Handlers
    /\ pc[t] = "idle"
    /\ \A h \in Handlers : h < t => pc[h] # "idle"
    /\ calls < MaxCalls

\* the handler of thread t returns: the thread is free again
Free(t) ==
    /\ pc' = [pc EXCEPT ![t] = "idle"]
    /\ loc' = [loc EXCEPT ![t] = Idle]

(***************************************************************************)
(* handle_echo                                                             *)
(***************************************************************************)
Echo(t) ==
    /\ FreeHandler(t)
    /\ calls' = calls + 1
    /\ resp' = [op |-> "echo", ret |-> Success]
    /\ UNCHANGED <<worklist_server, srcVars, emrStatus, storeVars, dbLock, managed, pc, loc,
                   uidGen, cancelled, histVars>>

(***************************************************************************)
(* handle_create (N-CREATE) and record_mpps_in_progress                     *)
(***************************************************************************)
\* the checks of handle_create without the duplicate test of lines 98-101
CreateCheckNoDuplicate(r) ==
    IF r.uid = NONE THEN InvalidAttributeValue
    ELSE IF r.status = NONE THEN MissingAttribute
    ELSE IF Upper(r.status) # "IN PROGRESS" THEN InvalidAttributeValue
    ELSE Success

\* the checks of handle_create with the status tests ahead of the duplicate
\* test
CreateCheckStatusFirst(r) ==
    IF r.uid = NONE THEN InvalidAttributeValue
    ELSE IF r.status = NONE THEN MissingAttribute
    ELSE IF Upper(r.status) # "IN PROGRESS" THEN InvalidAttributeValue
    ELSE IF r.uid \in DOMAIN managed THEN DuplicateSOPInstance
    ELSE Success

\* lines 92-114: the code the checks of handle_create return for request r,
\* Success when all of them pass
CreateCheck(r) ==
    IF r.uid = NONE THEN InvalidAttributeValue
    ELSE IF r.uid \in DOMAIN managed THEN DuplicateSOPInstance
    ELSE IF r.status = NONE THEN MissingAttribute
    ELSE IF Upper(r.status) # "IN PROGRESS" THEN InvalidAttributeValue
    ELSE Success

\* an N-CREATE request r arrives; lines 88-114: the checks, and a request
\* that fails one is answered at once
CreateValidate(t) ==
    /\ FreeHandler(t)
    /\ calls' = calls + 1
    /\ \E r \in CreateRequests :
          LET code == CreateCheck(r)
          IN  IF code # Success
              THEN /\ resp' = [op |-> "create", req |-> r, acc |-> NONE, ret |-> code]
                   /\ UNCHANGED <<pc, loc, accepted>>
              ELSE /\ pc' = [pc EXCEPT ![t] = "create_register"]
                   /\ loc' = [loc EXCEPT ![t] = [op |-> "create", req |-> r]]
                   /\ accepted' = accepted \cup {r.uid}
                   /\ resp' = NoResp
    /\ UNCHANGED <<worklist_server, srcVars, emrStatus, storeVars, dbLock, managed, uidGen,
                   cancelled, offered, inserted, startOk>>

\* startOk with one more successful N-CREATE for uid u
CountStart(u) ==
    [v \in DOMAIN startOk \cup {u} |->
        IF v = u THEN (IF u \in DOMAIN startOk THEN startOk[u] + 1 ELSE 1)
        ELSE startOk[v]]

\* line 154: handle_create returns 0x0000 for request r that named
\* accession number acc
CreateReturn(t, r, acc) ==
    /\ Free(t)
    /\ resp' = [op |-> "create", req |-> r, acc |-> acc, ret |-> Success]
    /\ startOk' = CountStart(r.uid)

\* managed_instances[uid] = ds (line 126), ds.update(mod_list) (line 181)
Register(u, st) ==
    [v \in DOMAIN managed \cup {u} |-> IF v = u THEN st ELSE managed[v]]

\* lines 116-132: the dataset is registered; reading Modality or the
\* ScheduledStepAttributesSequence of a request without them raises, which
\* line 149 catches, and line 154 returns 0x0000
CreateRegister(t) ==
    /\ pc[t] = "create_register"
    /\ LET r == loc[t].req
       IN  /\ managed' = Register(r.uid, r.status)
           /\ \E a \in CreateAttributes :
                 IF a.attrs
                 THEN /\ pc' = [pc EXCEPT ![t] = "create_query"]
                      /\ loc' = [loc EXCEPT ![t] =
                                   [op |-> "create", req |-> r, acc |-> a.acc]]
                      /\ resp' = NoResp
                      /\ UNCHANGED startOk
                 ELSE CreateReturn(t, r, NONE)
    /\ UNCHANGED <<worklist_server, srcVars, emrStatus, storeVars, dbLock, calls, uidGen,
                   cancelled, offered, inserted, accepted>>

\* record_mpps_in_progress, lines 262-269: the worklist item is looked up;
\* without one the function returns False and handle_create returns 0x0000
CreateQuery(t) ==
    /\ pc[t] = "create_query"
    /\ LET L == loc[t]
           found == {it \in items : it.accession_number = L.acc}
       IN  IF found = {}
           THEN CreateReturn(t, L.req, L.acc)
           ELSE /\ pc' = [pc EXCEPT ![t] = "create_commit"]
                /\ loc' = [loc EXCEPT ![t] =
                             [op |-> "create", req |-> L.req, acc |-> L.acc,
                              loaded |-> (CHOOSE it \in found : TRUE)]]
                /\ resp' = NoResp
                /\ UNCHANGED startOk
    /\ UNCHANGED <<worklist_server, srcVars, emrStatus, storeVars, dbLock, managed, calls,
                   uidGen, cancelled, offered, inserted, accepted>>

\* lines 271-284: db.commit() flushes the UPDATE of the item and the INSERT
\* of the tracking row in one transaction; UNIQUE(sop_instance_uid) failing
\* rolls both back and the function returns False (line 294)
CreateCommit(t) ==
    /\ pc[t] = "create_commit"
    /\ dbLock = {}
    /\ LET L == loc[t]
       IN  IF \E m \in tracking : m.sop_instance_uid = L.req.uid
           THEN /\ CreateReturn(t, L.req, L.acc)
                /\ UNCHANGED <<items, tracking>>
           ELSE /\ items' = SetItemStatus(L.loaded, "IN PROGRESS")
                /\ tracking' = tracking \cup
                      {[sop_instance_uid |-> L.req.uid, accession_number |-> L.acc,
                        status |-> "IN PROGRESS"]}
                /\ pc' = [pc EXCEPT ![t] = "create_push"]
                /\ resp' = NoResp
                /\ UNCHANGED <<loc, startOk>>
    /\ UNCHANGED <<worklist_server, srcVars, emrStatus, patients, dbLock, managed, calls,
                   uidGen, cancelled, offered, inserted, accepted>>

\* line 284 while another session holds the write lock until the busy
\* timeout expires: the function returns False, handle_create 0x0000
CreateCommitLocked(t) ==
    /\ pc[t] = "create_commit"
    /\ dbLock # {}
    /\ CreateReturn(t, loc[t].req, loc[t].acc)
    /\ UNCHANGED <<worklist_server, srcVars, emrStatus, storeVars, dbLock, managed, calls,
                   uidGen, cancelled, offered, inserted, accepted>>

\* lines 286-293: the best-effort push of 'IP', then the return
CreatePush(t) ==
    /\ pc[t] = "create_push"
    /\ LET L == loc[t]
       IN  /\ IF TruthyInt(L.loaded.emr_order_seq)
              THEN \E ok \in BOOLEAN :
                      emrStatus' = update_order_status(L.loaded.emr_order_seq, "IP", ok)
              ELSE UNCHANGED emrStatus
           /\ CreateReturn(t, L.req, L.acc)
    /\ UNCHANGED <<worklist_server, srcVars, storeVars, dbLock, managed, calls, uidGen,
                   cancelled, offered, inserted, accepted>>

(***************************************************************************)
(* handle_set (N-SET) and record_mpps_completed                             *)
(***************************************************************************)
\* handle_set without the membership test of line 160
SetKnownAlways(r) == TRUE

\* line 160
SetKnown(r) == r.uid \in DOMAIN managed

\* an N-SET request r arrives; lines 159-163 and record_mpps_completed lines
\* 304-322: an unknown uid is answered 0x0112; else the tracking row and its
\* worklist item are looked up, and without a tracking row the function
\* returns (False, None), the dataset is updated (line 181) and handle_set
\* returns 0x0000
SetLookup(t) ==
    /\ FreeHandler(t)
    /\ calls' = calls + 1
    /\ \E r \in SetRequests :
          LET rows == {m \in tracking : m.sop_instance_uid = r.uid}
          IN  IF ~SetKnown(r)
              THEN /\ resp' = [op |-> "set", req |-> r, ret |-> NoSuchSOPInstance]
                   /\ UNCHANGED <<managed, pc, loc>>
              ELSE IF rows = {}
              THEN /\ resp' = [op |-> "set", req |-> r, ret |-> Success]
                   /\ managed' = Register(r.uid, r.status)
                   /\ UNCHANGED <<pc, loc>>
              ELSE LET m == CHOOSE x \in rows : TRUE
                       found == {it \in items : it.accession_number = m.accession_number}
                   IN  /\ pc' = [pc EXCEPT ![t] = "set_push"]
                       /\ loc' = [loc EXCEPT ![t] =
                                    [op |-> "set", req |-> r, mpps |-> m,
                                     loaded |-> found]]
                       /\ resp' = NoResp
                       /\ UNCHANGED managed
    /\ UNCHANGED <<worklist_server, srcVars, emrStatus, storeVars, dbLock, uidGen, cancelled,
                   histVars>>

\* lines 324-332: the best-effort push of 'CO', before the commit
SetPush(t) ==
    /\ pc[t] = "set_push"
    /\ IF \E it \in loc[t].loaded : TruthyInt(it.emr_order_seq)
       THEN \E ok \in BOOLEAN : \E it \in loc[t].loaded :
               emrStatus' = update_order_status(it.emr_order_seq, "CO", ok)
       ELSE UNCHANGED emrStatus
    /\ pc' = [pc EXCEPT ![t] = "set_commit"]
    /\ resp' = NoResp
    /\ UNCHANGED <<worklist_server, srcVars, storeVars, dbLock, managed, loc, calls, uidGen,
                   cancelled, histVars>>

\* record_mpps_completed whose commit leaves the worklist item as it was
CompletedItemsDropped(loaded) == items

\* the committed worklist items after the flush of record_mpps_completed
CompletedItems(loaded) ==
    IF loaded = {} THEN items
    ELSE SetItemStatus(CHOOSE it \in loaded : TRUE, "COMPLETED")

\* handle_set that returns without line 181
SetReturnKeeps(t, r) ==
    /\ managed' = managed
    /\ Free(t)
    /\ resp' = [op |-> "set", req |-> r, ret |-> Success]

\* lines 181-187: the dataset is updated and handle_set returns 0x0000
SetReturn(t, r) ==
    /\ managed' = Register(r.uid, r.status)
    /\ Free(t)
    /\ resp' = [op |-> "set", req |-> r, ret |-> Success]

\* record_mpps_completed that deletes the tracking row instead
SetCommitDeletes(t) ==
    /\ pc[t] = "set_commit"
    /\ dbLock = {}
    /\ tracking' = {x \in tracking : x.sop_instance_uid # loc[t].mpps.sop_instance_uid}
    /\ items' = CompletedItems(loc[t].loaded)
    /\ SetReturn(t, loc[t].req)
    /\ UNCHANGED <<worklist_server, srcVars, emrStatus, patients, dbLock, calls,
                   uidGen, cancelled, histVars>>

\* line 334: db.commit() flushes the UPDATE of the tracking row (status and
\* end_time) and of the worklist item; then line 181 and the return
SetCommit(t) ==
    /\ pc[t] = "set_commit"
    /\ dbLock = {}
    /\ LET m == loc[t].mpps
       IN  /\ tracking' = {IF x.sop_instance_uid = m.sop_instance_uid
                           THEN [x EXCEPT !.status = "COMPLETED"] ELSE x :
                           x \in tracking}
           /\ items' = CompletedItems(loc[t].loaded)
    /\ SetReturn(t, loc[t].req)
    /\ UNCHANGED <<worklist_server, srcVars, emrStatus, patients, dbLock, calls, uidGen,
                   cancelled, histVars>>

\* line 334 while another session holds the write lock until the busy
\* timeout expires: (False, None), and handle_set still returns 0x0000
SetCommitLocked(t) ==
    /\ pc[t] = "set_commit"
    /\ dbLock # {}
    /\ SetReturn(t, loc[t].req)
    /\ UNCHANGED <<worklist_server, srcVars, emrStatus, storeVars, dbLock, calls, uidGen,
                   cancelled, histVars>>

(***************************************************************************)
(* handle_find (C-FIND) and find_worklist                                   *)
(***************************************************************************)
\* a C-FIND request arrives: find_worklist first calls sync_emr_orders
\* (lines 197-204)
FindBegin(t) ==
    /\ FreeHandler(t)
    /\ SyncStart(t, "find")

\* get_worklist_items without the modality filter of lines 224-225
get_worklist_items_any_modality(f) ==
    {it \in items :
        /\ it.status = "SCHEDULED"
        /\ \E p \in patients : p.patient_id = it.patient_id
        /\ (f.acc # <<"*">> => it.accession_number = f.acc)
        /\ (f.date # NONE => it.appointment_date = f.date)}

\* get_worklist_items without the status filter of line 216
get_worklist_items_any_status(f) ==
    {it \in items :
        /\ \E p \in patients : p.patient_id = it.patient_id
        /\ (f.acc # <<"*">> => it.accession_number = f.acc)
        /\ (f.date # NONE => it.appointment_date = f.date)
        /\ (f.modality # NONE => it.modality = f.modality)}

\* get_worklist_items: the SCHEDULED items, joined with their patient, that
\* pass the filters given
get_worklist_items(f) ==
    {it \in items :
        /\ it.status = "SCHEDULED"
        /\ \E p \in patients : p.patient_id = it.patient_id
        /\ (f.acc # <<"*">> => it.accession_number = f.acc)
        /\ (f.date # NONE => it.appointment_date = f.date)
        /\ (f.modality # NONE => it.modality = f.modality)}

\* the sequences that list every element of S once: the rows of a query
\* without ORDER BY
Orderings(S) ==
    {q \in [1..Cardinality(S) -> S] : \A i, j \in DOMAIN q : i # j => q[i] # q[j]}

\* the locals of find_worklist after its query returned rows; wrote is the
\* accession numbers whose study instance uid this call has written, yielded
\* the records handle_find has yielded, gone what SyncStart recorded
Building(f, rows, gone) ==
    [op |-> "find", req |-> f, rows |-> rows, out |-> <<>>, wrote |-> {},
     yielded |-> <<>>, gone |-> gone]

\* lines 206-224: the filter is read from the identifier, which is one of
\* `identifiers`, and the store is queried
FindQuery(t, identifiers) ==
    /\ pc[t] = "find_query"
    /\ \E f \in identifiers : \E rows \in Orderings(get_worklist_items(f)) :
          /\ loc' = [loc EXCEPT ![t] = Building(f, rows, loc[t].gone)]
          /\ pc' = [pc EXCEPT ![t] = IF rows = <<>> THEN "find_yield" ELSE "find_build"]
    /\ resp' = NoResp
    /\ UNCHANGED <<worklist_server, srcVars, emrStatus, storeVars, dbLock, managed, calls,
                   uidGen, cancelled, histVars>>

\* what handle_find has yielded when its generator ends in the handler of
\* line 76: no status at all
NoStatus == -1

\* line 223 when the query raises (get_worklist_items catches nothing): the
\* exception leaves find_worklist and is logged by handle_find, lines 76-79
FindQueryFails(t) ==
    /\ pc[t] = "find_query"
    /\ resp' = [op |-> "find", req |-> NONE, ret |-> NoStatus]
    /\ Free(t)
    /\ UNCHANGED <<worklist_server, srcVars, emrStatus, storeVars, dbLock, managed, calls,
                   uidGen, cancelled, histVars>>

\* the dataset built for a row, with the study instance uid it carries
Record(it, uid) == [accession_number |-> it.accession_number, study_instance_uid |-> uid]

\* update_study_instance_uid whose UPDATE does not reach the store
update_study_instance_uid_lost(acc, uid) == items

\* update_study_instance_uid: the committed items after its UPDATE
update_study_instance_uid(acc, uid) ==
    {IF it.accession_number = acc THEN [it EXCEPT !.study_instance_uid = uid] ELSE it :
        it \in items}

\* where find_worklist stands after a row: line 273 returns the list to
\* handle_find after the last one
AfterRow(t) ==
    [pc EXCEPT ![t] = IF Tail(loc[t].rows) = <<>> THEN "find_yield" ELSE "find_build"]

\* lines 226-270, one row: a row without study instance uid gets a generated
\* one, written back by update_study_instance_uid in a session of its own
FindBuild(t) ==
    /\ pc[t] = "find_build"
    /\ LET it == Head(loc[t].rows)
       IN  IF it.study_instance_uid # <<>>
           THEN /\ loc' = [loc EXCEPT ![t].rows = Tail(@),
                                      ![t].out = Append(@, Record(it, it.study_instance_uid))]
                /\ UNCHANGED <<items, uidGen>>
           ELSE /\ dbLock = {}
                /\ uidGen' = uidGen + 1
                /\ items' = update_study_instance_uid(it.accession_number, <<uidGen + 1>>)
                /\ loc' = [loc EXCEPT ![t].rows = Tail(@),
                                      ![t].out = Append(@, Record(it, <<uidGen + 1>>)),
                                      ![t].wrote = @ \cup {it.accession_number}]
    /\ pc' = AfterRow(t)
    /\ resp' = NoResp
    /\ UNCHANGED <<worklist_server, srcVars, emrStatus, patients, tracking, dbLock, managed,
                   calls, cancelled, histVars>>

\* the same while another session holds the write lock until the busy
\* timeout expires: update_study_instance_uid returns False (line 264), the
\* generated uid stays in the dataset
FindBuildLocked(t) ==
    /\ pc[t] = "find_build"
    /\ Head(loc[t].rows).study_instance_uid = <<>>
    /\ dbLock # {}
    /\ uidGen' = uidGen + 1
    /\ loc' = [loc EXCEPT ![t].rows = Tail(@),
                          ![t].out = Append(@, Record(Head(loc[t].rows), <<uidGen + 1>>))]
    /\ pc' = AfterRow(t)
    /\ resp' = NoResp
    /\ UNCHANGED <<worklist_server, srcVars, emrStatus, storeVars, dbLock, managed, calls,
                   cancelled, histVars>>

\* the peer sends C-CANCEL; event.is_cancelled is read in the loop only
FindCancel(t) ==
    /\ pc[t] = "find_yield"
    /\ loc[t].out # <<>>
    /\ t \notin cancelled
    /\ cancelled' = cancelled \cup {t}
    /\ resp' = NoResp
    /\ UNCHANGED <<worklist_server, srcVars, emrStatus, storeVars, dbLock, managed, pc, loc,
                   calls, uidGen, histVars>>

\* lines 67-75: one turn of the loop of handle_find (a record is yielded
\* with status pending, or the cancel status ends the response), or the
\* final success status after the loop
FindYield(t) ==
    /\ pc[t] = "find_yield"
    /\ LET L == loc[t]
       IN  IF L.out = <<>>
           THEN /\ resp' = [op |-> "find", req |-> L.req, ret |-> Success]
                /\ Free(t)
                /\ cancelled' = cancelled \ {t}
           ELSE IF t \in cancelled
           THEN /\ resp' = [op |-> "find", req |-> L.req, ret |-> Cancel]
                /\ Free(t)
                /\ cancelled' = cancelled \ {t}
           ELSE /\ resp' = [op |-> "find", req |-> L.req, ret |-> Pending,
                            record |-> Head(L.out)]
                /\ loc' = [loc EXCEPT ![t].out = Tail(@),
                                      ![t].yielded = Append(@, Head(L.out))]
                /\ UNCHANGED <<pc, cancelled>>
    /\ UNCHANGED <<worklist_server, srcVars, emrStatus, storeVars, dbLock, managed, calls,
                   uidGen, histVars>>

(***************************************************************************)
(* Sessions and calls to the order source.                                  *)
(***************************************************************************)
\* thread t is inside a "with get_db() as db" block: its locals hold the
\* session, or the rows the session has loaded
SessionOpen(t) == "ses" \in DOMAIN loc[t] \/ "loaded" \in DOMAIN loc[t]

\* the next step of thread t is a call of emr_api: fetch_new_orders (line
\* 440) or update_order_status (lines 289 and 330)
WaitsOnSource(t) == pc[t] \in {"sync_fetch", "create_push", "set_push"}

(***************************************************************************)
(* OnChange                                                                *)
(***************************************************************************)
\* OnChange with ORTHANC_STOPPED, lines 323-328: worklist_server.shutdown();
\* nothing is said to the background thread
OnChangeStopped ==
    /\ worklist_server = "running"
    /\ worklist_server' = "stopped"
    /\ resp' = NoResp
    /\ UNCHANGED <<srcVars, emrStatus, storeVars, dbLock, managed, pc, loc,
                   calls, uidGen, cancelled, histVars>>

(***************************************************************************)
(* The server: the background thread and the handler threads, every        *)
(* operation and every request.                                            *)
(***************************************************************************)
Next ==
    \/ EmrInsert
    \/ BgSync
    \/ BgSyncAgain
    \/ OnChangeStopped
    \/ \E t \in Threads :
          \/ SyncFetch(t)
          \/ SyncOrder(t)
          \/ SyncFlush(t)
          \/ SyncFlushLocked(t)
          \/ SyncCommit(t)
          \/ SyncCommitLocked(t)
    \/ \E t \in Handlers :
          \/ Echo(t)
          \/ CreateValidate(t)
          \/ CreateRegister(t)
          \/ CreateQuery(t)
          \/ CreateCommit(t)
          \/ CreateCommitLocked(t)
          \/ CreatePush(t)
          \/ SetLookup(t)
          \/ SetPush(t)
          \/ SetCommit(t)
          \/ SetCommitLocked(t)
          \/ FindBegin(t)
          \/ FindQuery(t, FindRequests)
          \/ FindQueryFails(t)
          \/ FindBuild(t)
          \/ FindBuildLocked(t)
          \/ FindCancel(t)
          \/ FindYield(t)

Spec == Init /\ [][Next]_vars

(***************************************************************************)
(* The background loop alone: sync_emr_orders called again and again, one   *)
(* call after the other, while orders arrive in the order source.           *)
(***************************************************************************)
NextBg ==
    \/ EmrInsert
    \/ BgSync
    \/ SyncFetch(BG)
    \/ SyncOrder(BG)
    \/ SyncFlush(BG)
    \/ SyncCommit(BG)

SpecBg == Init /\ [][NextBg]_vars

(***************************************************************************)
(* Synchronisation under concurrency: the background loop and the worklist  *)
(* queries of the handler threads (identifier without filters), which both  *)
(* call sync_emr_orders.                                                    *)
(***************************************************************************)
NextSync ==
    \/ EmrInsert
    \/ BgSync
    \/ \E t \in Threads :
          \/ SyncFetch(t)
          \/ SyncOrder(t)
          \/ SyncFlush(t)
          \/ SyncFlushLocked(t)
          \/ SyncCommit(t)
          \/ SyncCommitLocked(t)
    \/ \E t \in Handlers :
          \/ FindBegin(t)
          \/ FindQuery(t, {MatchAll})
          \/ FindBuild(t)
          \/ FindBuildLocked(t)
          \/ FindYield(t)

SpecSync == Init /\ [][NextSync]_vars

(***************************************************************************)
(* The procedure-step handlers over a store that has absorbed orders 1 and  *)
(* 2: N-CREATE, N-SET and C-ECHO requests on the handler threads.           *)
(***************************************************************************)
Absorbed == {o \in Catalogue : o.id \in {1, 2}}

InitMpps ==
    /\ emr = Absorbed
    /\ pool = {}
    /\ emrStatus = {}
    /\ patients = {NewPatient(o) : o \in Absorbed}
    /\ items = {NewItem(o) : o \in Absorbed}
    /\ tracking = {}
    /\ dbLock = {}
    /\ managed = [u \in {} |-> ""]
    /\ pc = [t \in Threads |-> "idle"]
    /\ loc = [t \in Threads |-> Idle]
    /\ calls = 0
    /\ uidGen = 0
    /\ cancelled = {}
    /\ resp = NoResp
    /\ offered = Absorbed
    /\ inserted = [r \in {NewItem(o) : o \in Absorbed} |-> 1]
    /\ accepted = {}
    /\ startOk = [u \in {} |-> 0]
    /\ worklist_server = "running"

NextMpps ==
    \E t \in Handlers :
       \/ Echo(t)
       \/ CreateValidate(t)
       \/ CreateRegister(t)
       \/ CreateQuery(t)
       \/ CreateCommit(t)
       \/ CreatePush(t)
       \/ SetLookup(t)
       \/ SetPush(t)
       \/ SetCommit(t)

SpecMpps == InitMpps /\ [][NextMpps]_vars

(***************************************************************************)
(* A store that has absorbed order 1 while order 2, of a patient the store  *)
(* does not know yet, waits in the order source.                            *)
(***************************************************************************)
Known == {o \in Catalogue : o.id = 1}

InitKnown ==
    /\ emr = Known
    /\ pool = {o \in Catalogue : o.id = 2}
    /\ emrStatus = {}
    /\ patients = {NewPatient(o) : o \in Known}
    /\ items = {NewItem(o) : o \in Known}
    /\ tracking = {}
    /\ dbLock = {}
    /\ managed = [u \in {} |-> ""]
    /\ pc = [t \in Threads |-> "idle"]
    /\ loc = [t \in Threads |-> Idle]
    /\ calls = 0
    /\ uidGen = 0
    /\ cancelled = {}
    /\ resp = NoResp
    /\ offered = Known
    /\ inserted = [r \in {NewItem(o) : o \in Known} |-> 1]
    /\ accepted = {}
    /\ startOk = [u \in {} |-> 0]
    /\ worklist_server = "running"

(***************************************************************************)
(* Worklist queries one after the other on one handler thread, every       *)
(* filter, with cancellation and with a store query that may fail.          *)
(***************************************************************************)
NextFindSeq ==
    \/ EmrInsert
    \/ FindBegin(1)
    \/ SyncFetch(1)
    \/ SyncOrder(1)
    \/ SyncFlush(1)
    \/ SyncCommit(1)
    \/ FindQuery(1, FindRequests)
    \/ FindQueryFails(1)
    \/ FindBuild(1)
    \/ FindCancel(1)
    \/ FindYield(1)

SpecFindSeq == InitKnown /\ [][NextFindSeq]_vars

(***************************************************************************)
(* Worklist queries, N-CREATE and N-SET requests on the handler threads.    *)
(***************************************************************************)
NextFind ==
    \/ EmrInsert
    \/ \E t \in Handlers :
          \/ SyncFetch(t)
          \/ SyncOrder(t)
          \/ SyncFlush(t)
          \/ SyncFlushLocked(t)
          \/ SyncCommit(t)
          \/ CreateValidate(t)
          \/ CreateRegister(t)
          \/ CreateQuery(t)
          \/ CreateCommit(t)
          \/ CreateCommitLocked(t)
          \/ CreatePush(t)
          \/ SetLookup(t)
          \/ SetPush(t)
          \/ SetCommit(t)
          \/ SetCommitLocked(t)
          \/ FindBegin(t)
          \/ FindQuery(t, FindRequests)
          \/ FindQueryFails(t)
          \/ FindBuild(t)
          \/ FindBuildLocked(t)
          \/ FindCancel(t)
          \/ FindYield(t)

SpecFind == InitKnown /\ [][NextFind]_vars

(***************************************************************************)
(* The procedure-step handlers while the background loop synchronises:      *)
(* the loop holds the write lock of the store from its flush to its commit. *)
(***************************************************************************)
NextBusy ==
    \/ EmrInsert
    \/ BgSync
    \/ SyncFetch(BG)
    \/ SyncOrder(BG)
    \/ SyncFlush(BG)
    \/ SyncCommit(BG)
    \/ \E t \in Handlers :
          \/ CreateValidate(t)
          \/ CreateRegister(t)
          \/ CreateQuery(t)
          \/ CreateCommit(t)
          \/ CreateCommitLocked(t)
          \/ CreatePush(t)
          \/ SetLookup(t)
          \/ SetPush(t)
          \/ SetCommit(t)
          \/ SetCommitLocked(t)

SpecBusy == InitKnown /\ [][NextBusy]_vars

(***************************************************************************)
(* The background loop over an order source with unusual rows: sequence     *)
(* number 0, no patient name, and a known chart number under another name.  *)
(***************************************************************************)
Unusual ==
    { Order(1, <<1>>, "datetime:20250101", "CT", "DOE^JOHN", "P1"),
      Order(4, <<0>>, "202501021000", "CT", "ROE^JANE", "P3"),
      Order(5, <<3>>, "202501021000", "US", NONE, "P4"),
      Order(6, <<4>>, "202501021000", "CT", "DOE^JON", "P1") }

InitUnusual ==
    /\ emr = {}
    /\ pool = Unusual
    /\ emrStatus = {}
    /\ patients = {}
    /\ items = {}
    /\ tracking = {}
    /\ dbLock = {}
    /\ managed = [u \in {} |-> ""]
    /\ pc = [t \in Threads |-> "idle"]
    /\ loc = [t \in Threads |-> Idle]
    /\ calls = 0
    /\ uidGen = 0
    /\ cancelled = {}
    /\ resp = NoResp
    /\ offered = {}
    /\ inserted = [r \in {} |-> 0]
    /\ accepted = {}
    /\ startOk = [u \in {} |-> 0]
    /\ worklist_server = "running"

SpecUnusual == InitUnusual /\ [][NextBg]_vars

(***************************************************************************)
(* The background loop started on an empty store against an order source    *)
(* that already holds one order more than a fetch returns; two more orders  *)
(* with higher sequence numbers arrive later.                               *)
(***************************************************************************)
Backlog ==
    {Order(10 + k, <<k>>, "202501021000", "CT", "DOE^JOHN", "P1") :
        k \in 1..(FetchLimit + 1)}

InitBacklog ==
    /\ emr = Backlog
    /\ pool = {Order(20, <<FetchLimit + 2>>, "202501021000", "CT", "DOE^JOHN", "P1"),
               Order(21, <<FetchLimit + 3>>, "202501021000", "US", "ROE^JANE", "P3")}
    /\ emrStatus = {}
    /\ patients = {}
    /\ items = {}
    /\ tracking = {}
    /\ dbLock = {}
    /\ managed = [u \in {} |-> ""]
    /\ pc = [t \in Threads |-> "idle"]
    /\ loc = [t \in Threads |-> Idle]
    /\ calls = 0
    /\ uidGen = 0
    /\ cancelled = {}
    /\ resp = NoResp
    /\ offered = {}
    /\ inserted = [r \in {} |-> 0]
    /\ accepted = [u \in {} |-> 0]
    /\ startOk = [u \in {} |-> 0]
    /\ worklist_server = "running"

SpecBacklog == InitBacklog /\ [][NextBg]_vars

(***************************************************************************)
(* The background loop while Orthanc stops.                                 *)
(***************************************************************************)
NextStop ==
    \/ OnChangeStopped
    \/ NextBg

SpecStop == Init /\ [][NextStop]_vars

(***************************************************************************)
(* The background loop for as long as the process runs: the sleep of line   *)
(* 567 ends and the thread is scheduled, so the loop and the steps of       *)
(* sync_emr_orders are weakly fair; the arrival of orders is not.           *)
(***************************************************************************)
NextLoop ==
    \/ EmrInsert
    \/ BgSync
    \/ BgSyncAgain
    \/ SyncFetch(BG)
    \/ SyncOrder(BG)
    \/ SyncFlush(BG)
    \/ SyncCommit(BG)

SpecLoop ==
    /\ Init
    /\ [][NextLoop]_vars
    /\ WF_vars(BgSync \/ BgSyncAgain)
    /\ WF_vars(SyncFetch(BG) \/ SyncOrder(BG) \/ SyncFlush(BG) \/ SyncCommit(BG))

(***************************************************************************)
(* Properties.                                                             *)
(***************************************************************************)
\* position of a status in the lifecycle SCHEDULED -> IN PROGRESS -> COMPLETED
Rank(st) ==
    CASE st = "SCHEDULED" -> 0
      [] st = "IN PROGRESS" -> 1
      [] st = "COMPLETED" -> 2

\* thread t takes in an N-CREATE request in this step and lets it pass
CreatePasses(t) == pc[t] = "idle" /\ pc'[t] = "create_register"

\* this step takes in an N-CREATE request and rejects it
CreateRejected == calls' = calls + 1 /\ resp'.op = "create"

\* this step leaves managed_instances and the three tables as they are
NothingChanged ==
    /\ managed' = managed
    /\ patients' = patients
    /\ items' = items
    /\ tracking' = tracking

\* C1: over any sequence of start and complete events the status of every
\* worklist item only moves forward along SCHEDULED -> IN PROGRESS ->
\* COMPLETED: no step lowers it, and no step makes an item COMPLETED that
\* was not IN PROGRESS.
C1_StatusOnlyMovesForward ==
    [][\A old \in items : \A new \in items' :
          new.accession_number = old.accession_number =>
             /\ Rank(new.status) >= Rank(old.status)
             /\ (new.status = "COMPLETED" /\ old.status # "COMPLETED"
                    => old.status = "IN PROGRESS")]_vars

\* the orders offered so far that derive accession number acc
Deriving(acc) ==
    {o \in offered : TruthyInt(o.PcsOdrSeq) /\ AccessionOf(o.PcsOdrSeq[1]) = acc}

\* C2: after any sequence of sync calls, when the order source delivered two
\* or more orders that derive the same accession number, exactly one
\* worklist item with that accession number exists.
C2_OneItemPerDerivedAccession ==
    pc[BG] = "idle" =>
       \A o \in offered :
          LET acc == AccessionOf(o.PcsOdrSeq[1])
          IN  Cardinality(Deriving(acc)) >= 2 =>
                 Cardinality({it \in items : it.accession_number = acc}) = 1

\* the threads that are inside sync_emr_orders, between the cursor read and
\* the commit
InSync == {t \in Threads : pc[t] \in {"sync_fetch", "sync_loop", "sync_flush"}}

\* C3: at most one invocation of sync_emr_orders is between its cursor read
\* and its commit at any time.
C3_SyncMutuallyExclusive == Cardinality(InSync) <= 1

\* C4: in every reachable state, under any interleaving of the background
\* sync with the syncs of concurrent C-FIND requests, no two worklist items
\* share an accession number and no order is inserted twice.
C4_AccessionUnique ==
    /\ \A a, b \in items : a.accession_number = b.accession_number => a = b
    /\ \A r \in DOMAIN inserted : inserted[r] <= 1

\* a sync on a handler thread has just returned 0 for a batch each order of
\* which another sync inserted while it ran
C4_Witness ==
    /\ resp.op = "sync"
    /\ resp.by \in Handlers
    /\ resp.ret = 0
    /\ resp.batch # <<>>
    /\ \A o \in Range(resp.batch) :
          /\ NewItem(o) \in DOMAIN inserted
          /\ \E it \in items : it.accession_number = AccessionOf(o.PcsOdrSeq[1])

\* C5: a sync run that finds no order in the source that was not already
\* offered to an earlier run creates no worklist item and returns 0.
C5_SecondSyncCreatesNothing ==
    [][(resp'.op = "sync" /\ emr \subseteq offered) =>
          (resp'.ret = 0 /\ items' = items)]_vars

\* C6: an N-CREATE whose SOP instance uid an earlier N-CREATE was answered
\* 0x0000 for is answered 0x0111, and managed_instances, the tracking rows
\* and the worklist items are unchanged by it.
C6_DuplicateStartRejected ==
    [][/\ \A t \in Handlers :
             CreatePasses(t) => loc'[t].req.uid \notin DOMAIN startOk
       /\ (CreateRejected /\ resp'.req.uid \in DOMAIN startOk) =>
             (resp'.ret = DuplicateSOPInstance /\ NothingChanged)]_vars

\* a duplicate N-CREATE has just been answered 0x0111
C6_Witness ==
    /\ resp.op = "create"
    /\ resp.ret = DuplicateSOPInstance
    /\ resp.req.uid \in DOMAIN startOk
    /\ resp.req.status = "IN PROGRESS"

\* C7: when two N-CREATE with the same SOP instance uid run concurrently, at
\* most one of them is answered 0x0000.
C7_OneStartSucceedsPerUid == \A u \in DOMAIN startOk : startOk[u] <= 1

\* C8: whenever N-CREATE is answered 0x0000 the uid is registered in
\* managed_instances, a tracking row with that uid and status IN PROGRESS
\* exists, and the worklist item with the accession number referenced has
\* status IN PROGRESS.
C8_SuccessfulStartIsRecorded ==
    (resp.op = "create" /\ resp.ret = Success) =>
       /\ resp.req.uid \in DOMAIN managed
       /\ \E m \in tracking :
             m.sop_instance_uid = resp.req.uid /\ m.status = "IN PROGRESS"
       /\ \E it \in items :
             it.accession_number = resp.acc /\ it.status = "IN PROGRESS"

\* the spellings of the status that equal "in progress" when case is ignored
InProgressSpellings == {"IN PROGRESS", "in progress", "In Progress"}

\* the answer the stated order of the failure conditions gives request r
FirstFailure(r) ==
    IF r.uid = NONE THEN 262
    ELSE IF r.uid \in DOMAIN managed THEN 273
    ELSE IF r.status = NONE THEN 288
    ELSE IF r.status \notin InProgressSpellings THEN 262
    ELSE 0

\* C9: N-CREATE checks its failure conditions in the order uid absent
\* (0x0106), uid already tracked (0x0111), status attribute missing (0x0120),
\* status not "in progress" ignoring case (0x0106) and answers with the code
\* of the first that applies; a rejected N-CREATE changes neither
\* managed_instances nor the store.
C9_StartFailureOrder ==
    [][/\ \A t \in Handlers :
             CreatePasses(t) => FirstFailure(loc'[t].req) = 0
       /\ CreateRejected =>
             /\ resp'.ret = FirstFailure(resp'.req)
             /\ resp'.ret # 0
             /\ NothingChanged]_vars

\* an N-CREATE to which two failure conditions apply (uid already tracked,
\* status attribute missing) has just been answered with the first
C9_Witness ==
    /\ resp.op = "create"
    /\ resp.req.uid \in DOMAIN managed
    /\ resp.req.status = NONE
    /\ resp.ret = DuplicateSOPInstance

\* C10: an N-SET for a uid that is not in managed_instances is answered
\* 0x0112 and changes neither managed_instances nor a tracking row or
\* worklist item; N-SET is never answered 0x0000 for a uid that no N-CREATE
\* accepted.
C10_UnknownCompleteRejected ==
    [][/\ (calls' = calls + 1 /\ resp'.op = "set"
             /\ resp'.req.uid \notin DOMAIN managed) =>
             (resp'.ret = NoSuchSOPInstance /\ NothingChanged)
       /\ \A t \in Handlers :
             (pc[t] = "idle" /\ pc'[t] = "set_push") =>
                loc'[t].req.uid \in DOMAIN managed
       /\ (resp'.op = "set" /\ resp'.ret = Success) =>
             resp'.req.uid \in accepted]_vars

\* an N-SET for an unknown uid has just been answered 0x0112 while another
\* uid is registered
C10_Witness ==
    /\ resp.op = "set"
    /\ resp.ret = NoSuchSOPInstance
    /\ resp.req.uid \notin DOMAIN managed
    /\ DOMAIN managed # {}

\* C11: an N-SET for a uid of the managed-instance table is answered with
\* Success and the step record in memory takes the status that was sent,
\* whether a tracking row was found or not and whether the commit of
\* record_mpps_completed went through or not
C11_CompleteOfManagedSucceeds ==
    [][(resp'.op = "set" /\ resp'.req.uid \in DOMAIN managed)
          => /\ resp'.ret = Success
             /\ managed'[resp'.req.uid] = resp'.req.status]_vars

\* an N-SET was answered with Success although its commit failed: the
\* tracking row of the step is still IN PROGRESS
C11_Witness ==
    /\ resp.op = "set"
    /\ resp.ret = Success
    /\ resp.req.uid \in DOMAIN managed
    /\ managed[resp.req.uid] = resp.req.status
    /\ \E m \in tracking :
          m.sop_instance_uid = resp.req.uid /\ m.status = "IN PROGRESS"

\* whether worklist item it is SCHEDULED and passes every predicate filter f
\* supplies
Matches(it, f) ==
    /\ it.status = "SCHEDULED"
    /\ (f.modality # NONE => it.modality = f.modality)
    /\ (f.date # NONE => it.appointment_date = f.date)
    /\ (f.acc # <<"*">> => it.accession_number = f.acc)

\* the accession numbers of a sequence of rows or of records
Accessions(q) == [i \in DOMAIN q |-> q[i].accession_number]

\* the accession numbers a find has yielded, has built and has still to build
Listing(L) == Accessions(L.yielded) \o Accessions(L.out) \o Accessions(L.rows)

\* C12: the query of a find returns each worklist item that is SCHEDULED and
\* passes every supplied predicate exactly once and nothing else; the
\* response lists these items in that order, and the final Success comes
\* after all of them
C12_FindReturnsMatchingScheduled ==
    [][\A t \in Handlers :
          /\ (pc[t] = "find_query" /\ pc'[t] \in {"find_build", "find_yield"})
                => LET want == {it \in items : Matches(it, loc'[t].req)}
                   IN  /\ Range(loc'[t].rows) = want
                       /\ Len(loc'[t].rows) = Cardinality(want)
          /\ (pc[t] \in {"find_build", "find_yield"} /\ pc'[t] # "idle")
                => Listing(loc'[t]) = Listing(loc[t])
          /\ (pc[t] = "find_yield" /\ pc'[t] = "idle" /\ resp'.ret = Success)
                => loc[t].rows = <<>> /\ loc[t].out = <<>>]_vars

\* a find for modality CT has yielded every record of its answer while a
\* SCHEDULED item of another modality is in the store
C12_Witness ==
    \E t \in Handlers :
       /\ pc[t] = "find_yield"
       /\ loc[t].req.modality = "CT"
       /\ loc[t].yielded # <<>>
       /\ loc[t].out = <<>>
       /\ \E it \in items : it.status = "SCHEDULED" /\ it.modality # "CT"

\* C13: a worklist item that has left SCHEDULED never is SCHEDULED again,
\* and a find never yields a record of an item that had left SCHEDULED when
\* the find was called
C13_StartedItemNeverFound ==
    [][/\ \A it \in items : \A jt \in items' :
             (jt.accession_number = it.accession_number /\ it.status # "SCHEDULED")
                => jt.status # "SCHEDULED"
       /\ \A t \in Handlers :
             (pc[t] = "find_yield" /\ resp'.op = "find" /\ resp'.ret = Pending
                 /\ loc'[t].yielded # loc[t].yielded)
                => resp'.record.accession_number \notin loc[t].gone]_vars

\* a find called after an N-CREATE had moved an item out of SCHEDULED has
\* just yielded the record of another item and has nothing left to yield
C13_Witness ==
    \E t \in Handlers :
       /\ pc[t] = "find_yield"
       /\ loc[t].gone # {}
       /\ loc[t].req = MatchAll
       /\ loc[t].yielded # <<>>
       /\ loc[t].out = <<>>
       /\ resp.op = "find"
       /\ resp.ret = Pending

\* C14: when sync_emr_orders returns, every order of its batch that carries
\* the required values has a worklist item in the store, whatever happened
\* to the other orders of the batch
C14_FailedRecordSparesOthers ==
    [][resp'.op = "sync"
          => \A k \in DOMAIN resp'.batch :
                RequiredPresent(resp'.batch[k])
                   => \E it \in items' :
                         it.accession_number = AccessionOf(resp'.batch[k].PcsOdrSeq[1])]_vars

\* C15: the value sync_emr_orders returns is the number of worklist items
\* the call has added to the store, the count after minus the count before,
\* when nothing else writes to the store
C15_SyncReturnsItemsAdded ==
    [][resp'.op = "sync"
          => resp'.ret = Cardinality(items') - Cardinality(items)]_vars

\* a sync has returned 0 for a batch of two orders whose commit failed:
\* neither order has an item
C15_Witness ==
    /\ resp.op = "sync"
    /\ resp.ret = 0
    /\ Len(resp.batch) = 2
    /\ \A k \in DOMAIN resp.batch :
          ~\E it \in items :
              it.accession_number = AccessionOf(resp.batch[k].PcsOdrSeq[1])

\* C16: when the push of the status to the order source fails, the request
\* is still answered with Success and what was written stays: after a
\* failed push of 'IP' the tracking row and the item that left SCHEDULED
\* are in the store, untouched by the push step; after a failed push of
\* 'CO' the commit makes the tracking row COMPLETED, and the item too
\* unless the handler had read it as COMPLETED already
C16_PushFailureKeepsLocalChanges ==
    [][\A t \in Handlers :
          /\ (/\ pc[t] = "create_push"
               /\ pc'[t] = "idle"
               /\ <<loc[t].loaded.emr_order_seq, "IP">> \notin emrStatus')
                => /\ resp'.op = "create"
                   /\ resp'.ret = Success
                   /\ tracking' = tracking
                   /\ items' = items
                   /\ \E m \in tracking' : m.sop_instance_uid = loc[t].req.uid
                   /\ \A it \in items' :
                         it.accession_number = loc[t].acc => it.status # "SCHEDULED"
          /\ (/\ pc[t] = "set_commit"
               /\ pc'[t] = "idle"
               /\ dbLock = {}
               /\ \A it \in loc[t].loaded : <<it.emr_order_seq, "CO">> \notin emrStatus)
                => /\ resp'.op = "set"
                   /\ resp'.ret = Success
                   /\ \A m \in tracking' :
                         m.sop_instance_uid = loc[t].req.uid => m.status = "COMPLETED"
                   /\ \A it \in loc[t].loaded : \A jt \in items' :
                         (it.status # "COMPLETED"
                             /\ jt.accession_number = it.accession_number)
                            => jt.status = "COMPLETED"]_vars

\* an N-SET has been answered with Success and its item is COMPLETED although
\* no push to the order source has gone through, neither 'IP' nor 'CO'
C16_Witness ==
    /\ resp.op = "set"
    /\ resp.ret = Success
    /\ emrStatus = {}
    /\ \E m \in tracking :
          /\ m.sop_instance_uid = resp.req.uid
          /\ m.status = "COMPLETED"
          /\ \E it \in items :
                /\ it.accession_number = m.accession_number
                /\ it.status = "COMPLETED"
                /\ \E o \in emr : o.PcsOdrSeq = it.emr_order_seq

\* the order source holds an order that has no worklist item
SourceAhead ==
    \E o \in emr :
       ~\E it \in items : it.accession_number = AccessionOf(o.PcsOdrSeq[1])

\* C17: when the sync inside a find gets nothing from an order source that
\* holds new orders (the fetch failed), the sync returns 0 and leaves the
\* store as it was, the find goes on to its query, and that query returns
\* the matching SCHEDULED items the store holds
C17_FindSurvivesFailedSync ==
    [][\A t \in Handlers :
          /\ (/\ resp'.op = "sync"
               /\ resp'.by = t
               /\ loc[t].batch = <<>>
               /\ Eligible(loc[t].last_seq) # {})
                => /\ resp'.ret = 0
                   /\ <<patients, items, tracking>>' = <<patients, items, tracking>>
                   /\ pc'[t] = "find_query"
          /\ (pc[t] = "find_query" /\ pc'[t] \in {"find_build", "find_yield"}
                 /\ SourceAhead)
                => /\ Range(loc'[t].rows) = {it \in items : Matches(it, loc'[t].req)}
                   /\ Len(loc'[t].rows) = Cardinality(Range(loc'[t].rows))]_vars

\* a find whose sync failed has yielded the record of the item the store
\* held: the order source holds an order without item
C17_Witness ==
    /\ pc[1] = "find_yield"
    /\ loc[1].yielded # <<>>
    /\ loc[1].out = <<>>
    /\ SourceAhead
    /\ resp.op = "find"
    /\ resp.ret = Pending

\* the positions of a handler thread inside a find, after its sync
InFind == {"find_query", "find_build", "find_yield"}

\* C18: a find yields records with status Pending only and ends with exactly
\* one final status: Success when every record has been yielded, Cancel when
\* the cancellation is seen, and a final status as well when the store
\* query fails
C18_FindEndsWithFinalStatus ==
    [][\A t \in Handlers :
          /\ (pc[t] \in InFind /\ pc'[t] = "idle")
                => /\ resp'.op = "find"
                   /\ resp'.ret \in {Success, Cancel}
                   /\ resp'.ret = Success => (pc[t] = "find_yield" /\ loc[t].out = <<>>)
                   /\ resp'.ret = Cancel => t \in cancelled
          /\ (pc[t] \in InFind /\ pc'[t] \in InFind /\ resp'.op = "find")
                => resp'.ret = Pending]_vars

\* C19: when a find ends with Cancel, the study instance uids it has written
\* to the store are those of the records it has yielded and no others, and
\* every record it yields carries a uid that is in the store by then
C19_CancelledFindWritesYieldedOnly ==
    [][\A t \in Handlers :
          /\ (pc[t] = "find_yield" /\ pc'[t] = "idle" /\ resp'.ret = Cancel)
                => loc[t].wrote \subseteq Range(Accessions(loc[t].yielded))
          /\ (pc[t] = "find_yield" /\ resp'.op = "find" /\ resp'.ret = Pending
                 /\ loc'[t].yielded # loc[t].yielded)
                => \E it \in items :
                      /\ it.accession_number = resp'.record.accession_number
                      /\ it.study_instance_uid = resp'.record.study_instance_uid]_vars

\* C20: for finds that do not overlap and whose writes go through, the
\* record a find yields for an item carries the study instance uid the
\* store holds for that item; a uid the store holds is never replaced, and
\* a record built for an item that has one carries it
C20_StudyUidStable ==
    [][/\ \A it \in items : \A jt \in items' :
             (jt.accession_number = it.accession_number
                 /\ it.study_instance_uid # <<>>)
                => jt.study_instance_uid = it.study_instance_uid
       /\ (pc[1] = "find_build" /\ loc'[1].out # loc[1].out)
             => LET rec == loc'[1].out[Len(loc'[1].out)]
                IN  \A it \in items :
                       (it.accession_number = rec.accession_number
                           /\ it.study_instance_uid # <<>>)
                          => rec.study_instance_uid = it.study_instance_uid
       /\ (pc[1] = "find_yield" /\ resp'.op = "find" /\ resp'.ret = Pending)
             => \E it \in items' :
                   /\ it.accession_number = resp'.record.accession_number
                   /\ it.study_instance_uid # <<>>
                   /\ it.study_instance_uid = resp'.record.study_instance_uid]_vars

\* a second find has just yielded a record with the uid an earlier find
\* generated: it has written nothing itself
C20_Witness ==
    /\ calls >= 2
    /\ pc[1] = "find_yield"
    /\ resp.op = "find"
    /\ resp.ret = Pending
    /\ loc[1].wrote = {}
    /\ resp.record.study_instance_uid # <<>>
    /\ \E it \in items :
          /\ it.accession_number = resp.record.accession_number
          /\ it.study_instance_uid = resp.record.study_instance_uid

\* the background loop's call has just returned 0 although it was given
\* orders, or although the order source held orders past the cursor: the
\* commit or the fetch failed
BgIterationFailed ==
    /\ resp.op = "sync"
    /\ resp.by = BG
    /\ resp.ret = 0
    /\ \/ \E k \in DOMAIN resp.batch : RequiredPresent(resp.batch[k])
       \/ resp.batch = <<>> /\ Eligible(LastSeq) # {}

\* C21: the background loop calls sync_emr_orders again and again, and
\* after an iteration that failed a later iteration is run
C21_LoopSurvivesFailedIteration ==
    /\ []<>(pc[BG] = "sync_fetch")
    /\ (BgIterationFailed ~> pc[BG] = "sync_fetch")

\* the loop has called sync_emr_orders again after an iteration whose
\* commit failed: an order that was in a batch has no worklist item
C21_Witness ==
    /\ pc[BG] = "sync_fetch"
    /\ \E o \in offered :
          ~\E it \in items : it.accession_number = AccessionOf(o.PcsOdrSeq[1])

\* C22: once Orthanc has signalled that it stops, the background loop
\* starts no further call of sync_emr_orders
C22_NoSyncAfterShutdown ==
    [][worklist_server = "stopped"
          => ~(pc[BG] = "idle" /\ pc'[BG] = "sync_fetch")]_vars

\* whether order o carries all four required values, whatever they are
AllPresent(o) ==
    /\ o.PcsChtNum # NONE
    /\ o.PcsPatNam # NONE
    /\ o.PcsOdrDtm # NONE
    /\ o.PcsOdrSeq # <<>>

\* C23: when sync_emr_orders returns, an order of its batch that lacks a
\* required value has created neither a patient nor a worklist item, and
\* every order of the batch that carries all four has a worklist item, be
\* its sequence number 0
C23_RequiredCheckRejectsMissingOnly ==
    [][resp'.op = "sync"
          => \A k \in DOMAIN resp'.batch :
                LET o == resp'.batch[k]
                IN  IF AllPresent(o)
                    THEN \E it \in items' :
                            it.accession_number = AccessionOf(o.PcsOdrSeq[1])
                    ELSE /\ ~\E p \in patients' \ patients :
                               p.patient_id = o.PcsChtNum
                         /\ ~\E it \in items' \ items :
                               it.emr_order_seq = o.PcsOdrSeq]_vars

\* C24: a tracking row is created IN PROGRESS, its status goes on to
\* COMPLETED only, a COMPLETED row keeps that status under every later
\* N-CREATE and N-SET, and no row is ever deleted
C24_TrackingOnlyMovesForward ==
    [][/\ \A m \in tracking : \E n \in tracking' :
             /\ n.sop_instance_uid = m.sop_instance_uid
             /\ n.accession_number = m.accession_number
             /\ Rank(n.status) >= Rank(m.status)
       /\ \A n \in tracking' :
             \/ \E m \in tracking : m.sop_instance_uid = n.sop_instance_uid
             \/ n.status = "IN PROGRESS"
       /\ \A m, n \in tracking' :
             m.sop_instance_uid = n.sop_instance_uid => m = n]_vars

\* an N-SET is about to commit for a step whose tracking row it has read
\* as COMPLETED: a repeated complete of the same uid
C24_Witness ==
    \E t \in Handlers :
       /\ pc[t] = "set_commit"
       /\ loc[t].mpps.status = "COMPLETED"
       /\ loc[t].mpps \in tracking

\* C25: no thread is inside a store session at a moment when it calls the
\* order source, neither sync_emr_orders at its fetch nor a procedure-step
\* handler at its status push
C25_NoSessionAcrossSourceCall ==
    \A t \in Threads : WaitsOnSource(t) => ~SessionOpen(t)

\* C26: a step of record_mpps_in_progress either leaves the store as it is,
\* or adds the tracking row of the step and leaves the worklist item of
\* its accession number IN PROGRESS: never one change without the other
C26_StartIsAtomic ==
    [][\A t \in Handlers :
          (pc[t] \in {"create_query", "create_commit"} /\ pc'[t] # pc[t])
             => \/ tracking' = tracking /\ items' = items
                \/ /\ \E m \in tracking' \ tracking :
                         /\ m.sop_instance_uid = loc[t].req.uid
                         /\ m.accession_number = loc[t].acc
                   /\ \A it \in items' :
                         it.accession_number = loc[t].acc => it.status = "IN PROGRESS"]_vars

\* C27: every patient of the store stays in it with the values it has,
\* whatever the orders of later syncs say about its chart number, and the
\* store holds one patient per chart number
C27_PatientsNeverChange ==
    [][/\ \A p \in patients : p \in patients'
       /\ \A p, q \in patients' : p.patient_id = q.patient_id => p = q]_vars

\* a sync has returned whose batch held an order for chart number P1 under
\* another name than the patient P1 the store had before: the order has
\* its worklist item, the patient its old name
C27_Witness ==
    /\ resp.op = "sync"
    /\ \E k \in DOMAIN resp.batch :
          /\ resp.batch[k].PcsChtNum = "P1"
          /\ resp.batch[k].PcsPatNam = "DOE^JON"
          /\ \E it \in items :
                it.accession_number = AccessionOf(resp.batch[k].PcsOdrSeq[1])
    /\ \E p \in patients : p.patient_id = "P1" /\ p.patient_name = "DOE^JOHN"

\* C28: a worklist item that a sync adds to the store has status SCHEDULED,
\* and its assigned device is the first candidate that the modality mapping
\* lists for its modality when there is one, and null exactly when the
\* mapping lists none
C28_NewItemScheduledFirstCandidate ==
    [][\A it \in items' \ items :
          /\ it.status = "SCHEDULED"
          /\ (ModalityAETs(it.modality) # <<>>
                 => it.aet = ModalityAETs(it.modality)[1])
          /\ (it.aet = NONE <=> ModalityAETs(it.modality) = <<>>)]_vars

\* the store holds an item of a modality with two candidate devices and an
\* item of a modality with none, both added by a sync
C28_Witness ==
    /\ \E it \in items : it.modality = "CT" /\ it.aet = "CT_AET_1"
                          /\ Len(ModalityAETs("CT")) = 2
    /\ \E it \in items : it.modality = "US" /\ it.aet = NONE

\* C29: the cursor of the synchronisation never moves past an order that
\* has no worklist item: every order of the source that has the required
\* fields and a sequence number not above the highest one stored has its
\* worklist item, so that no such order is skipped for good
C29_CursorNeverPassesUnabsorbedOrder ==
    \A o \in emr :
        (RequiredPresent(o) /\ LastSeq # <<>> /\ o.PcsOdrSeq[1] <= LastSeq[1])
            => \E it \in items :
                  it.accession_number = AccessionOf(o.PcsOdrSeq[1])

\* C30: when finds of several callers overlap on an item without a study
\* instance uid, the uid the store holds for an item once written is never
\* replaced by another, and a record handed to a caller carries the uid
\* the store holds for its item, so that all callers receive the same uid
C30_ConcurrentFindsAgreeOnUid ==
    [][/\ \A it \in items : \A jt \in items' :
             (jt.accession_number = it.accession_number
                 /\ it.study_instance_uid # <<>>)
                => jt.study_instance_uid = it.study_instance_uid
       /\ \A t \in Handlers :
             (pc[t] = "find_yield" /\ resp'.op = "find" /\ resp'.ret = Pending
                 /\ loc'[t].yielded # loc[t].yielded)
                => \A it \in items' :
                      (it.accession_number = resp'.record.accession_number
                          /\ it.study_instance_uid # <<>>)
                         => it.study_instance_uid = resp'.record.study_instance_uid]_vars

\* C31: the status the external order source holds for an order is never
\* ahead of the committed status of its worklist item: where 'CO' has been
\* pushed the item is COMPLETED in the store, and where 'IP' has been pushed
\* the item has left SCHEDULED in the store
C31_PushedStatusAlreadyCommitted ==
    \A e \in emrStatus : \A it \in items :
        it.emr_order_seq = e[1]
           => /\ (e[2] = "CO" => it.status = "COMPLETED")
              /\ (e[2] = "IP" => it.status \in {"IN PROGRESS", "COMPLETED"})

\* C32: a worklist item is COMPLETED in the store only if no tracking row
\* with its accession number is still IN PROGRESS
C32_CompletedItemHasNoOpenStep ==
    \A it \in items :
        it.status = "COMPLETED"
           => ~\E m \in tracking :
                  /\ m.accession_number = it.accession_number
                  /\ m.status = "IN PROGRESS"

\* C33: every worklist item of the store refers to a patient of the store,
\* and every tracking row refers to a worklist item of the store
C33_ReferencesResolve ==
    /\ \A it \in items : \E p \in patients : p.patient_id = it.patient_id
    /\ \A m \in tracking :
          \E it \in items : it.accession_number = m.accession_number

\* a start that named an accession number without worklist item has just
\* returned and has left no tracking row, while the store holds a tracking
\* row of an earlier start and the item of a patient that a sync added
C33_Witness ==
    /\ resp.op = "create"
    /\ resp.acc \in Seq({"0", "9"})
    /\ resp.acc = UnknownAccession
    /\ ~\E m \in tracking : m.accession_number = UnknownAccession
    /\ tracking # {}
    /\ \E it \in items : it.patient_id = "P2"
    /\ ~\E p \in {NewPatient(o) : o \in Known} : p.patient_id = "P2"

=============================================================================
